---- MODULE Spec2Model ----
(***************************************************************************)
(* Model of src/main.go: the context-cancellation demonstration.           *)
(*                                                                         *)
(* The file holds two programs.  The first (lines 1-82) uses               *)
(* context.WithCancelCause and the workers leakyCauldron / hogwarts; the   *)
(* second (lines 84-165) uses context.WithCancel and the workers           *)
(* leakyWorker / safeWorker.  Both have the same control flow, so one      *)
(* state machine models them and the variable `variant` says which one is  *)
(* running.                                                                *)
(*                                                                         *)
(* Three goroutines run: main (the controller), the leaky worker and the   *)
(* cooperative worker.  Timers (time.Sleep, time.NewTicker) are modelled   *)
(* by the time that remains until they expire.  time.Sleep pauses "at      *)
(* least" its duration and the Go scheduler gives no upper bound on how    *)
(* long a runnable goroutine waits, so time may pass while a goroutine is  *)
(* runnable.  When main returns the process exits and every goroutine      *)
(* ends with it.                                                           *)
(***************************************************************************)
EXTENDS Integers, Sequences, FiniteSets

\* ---- bounds of the model ----
MaxLeakyWork == 3
MaxHogWork == 3

\* ---- program constants (milliseconds) ----
WarmUp == 1500
Observation == 2000
TickerPeriod == 200
LeakySleep == 500

\* ---- error values ----
Nil == "nil"
Canceled == "context canceled"
causeError == "Voldemort is here: all tasks stopped"
Unread == "unread"

VARIABLES
    variant,        \* "cause" (lines 1-82) or "plain" (lines 84-165)
    mainPc,         \* position of main
    mainTimer,      \* ms left of main's current time.Sleep
    deferred,       \* main's stack of deferred calls
    ctx,            \* the cancellable context handed to the cooperative worker
    bgCtx,          \* context.Background() handed to the leaky worker
    cancelLog,      \* the cause argument of every call of cancel, in order
    triggerCount,   \* number of cancel calls that changed ctx
    hogWorkAtTrigger, \* hogWork at the moment a cancel call changed ctx
    leakyPc,        \* position of leakyCauldron / leakyWorker
    leakyTimer,     \* ms left of the leaky worker's time.Sleep
    leakyWork,      \* work events printed by the leaky worker
    hogPc,          \* position of hogwarts / safeWorker
    tickerLive,     \* the ticker exists and has not been stopped
    tickerTimer,    \* ms left until the ticker's next tick
    tickPending,    \* a tick sits in ticker.C (a channel of capacity 1)
    hogWork,        \* work events printed by the cooperative worker
    hogDoneEvents,  \* cancellation-received events printed by the worker
    hogWorkAtDone,  \* hogWork at the moment the Done branch was taken
    hogErrSeen,     \* the value of ctx.Err() the worker printed
    hogCauseSeen    \* the value of context.Cause(ctx) the worker printed

vars == <<variant, mainPc, mainTimer, deferred, ctx, bgCtx, cancelLog,
          triggerCount, hogWorkAtTrigger, leakyPc, leakyTimer, leakyWork, hogPc, tickerLive,
          tickerTimer, tickPending, hogWork, hogDoneEvents, hogWorkAtDone,
          hogErrSeen, hogCauseSeen>>

mainVars == <<mainPc, mainTimer, deferred>>
ctxVars == <<ctx, cancelLog, triggerCount, hogWorkAtTrigger>>
leakyVars == <<leakyPc, leakyTimer, leakyWork>>
tickerVars == <<tickerLive, tickerTimer, tickPending>>
hogVars == <<hogPc, hogWork, hogDoneEvents, hogWorkAtDone, hogErrSeen, hogCauseSeen>>

\* ---- the context package, as main.go uses it ----

\* context.Background(): never cancelled.
Background == [done |-> FALSE, err |-> Nil, cause |-> Nil]

\* context.WithCancelCause(parent) / context.WithCancel(parent): a fresh,
\* untriggered context.
WithCancelCause == [done |-> FALSE, err |-> Nil, cause |-> Nil]

\* cancel(cause): the first call closes Done, sets Err to Canceled and
\* records the cause (Canceled when the cause is nil); later calls do nothing.
cancelOverwrite(c, cause) ==
    [done |-> TRUE, err |-> Canceled,
     cause |-> IF cause = Nil THEN Canceled ELSE cause]

cancelClosesFirst(c, cause) ==
    IF c.err # Nil THEN c
    ELSE IF c.done
         THEN [done |-> TRUE, err |-> Canceled,
               cause |-> IF cause = Nil THEN Canceled ELSE cause]
         ELSE [done |-> TRUE, err |-> Nil, cause |-> Nil]

cancelNoDefault(c, cause) ==
    IF c.err # Nil THEN c
    ELSE [done |-> TRUE, err |-> Canceled, cause |-> cause]

cancel(c, cause) ==
    IF c.err # Nil THEN c
    ELSE [done |-> TRUE, err |-> Canceled,
          cause |-> IF cause = Nil THEN Canceled ELSE cause]

\* <-ctx.Done() can proceed: the channel is closed.
DoneReadyAlways(c) == TRUE

DoneReady(c) == c.done

\* ctx.Err()
Err(c) == c.err

\* context.Cause(ctx)
CauseIsErr(c) == c.err

Cause(c) == c.cause

\* The cause main passes to its explicit cancel call: causeError in the
\* first program, none in the second (cancel() of WithCancel).
CauseArg == IF variant = "cause" THEN causeError ELSE Nil

\* The process is running: main has not returned.
Alive == mainPc # "exited"

\* ---- time ----
Min(S) == CHOOSE x \in S : \A y \in S : x <= y

ActiveTimers ==
    (IF mainPc \in {"warmUp", "observe"} THEN {mainTimer} ELSE {})
    \cup (IF leakyPc = "sleeping" THEN {leakyTimer} ELSE {})
    \cup (IF tickerLive THEN {tickerTimer} ELSE {})

Elapse(t, d) == IF t > d THEN t - d ELSE 0

Init ==
    /\ variant \in {"cause", "plain"}
    /\ mainPc = "start"
    /\ mainTimer = 0
    /\ deferred = <<>>
    /\ ctx = WithCancelCause
    /\ bgCtx = Background
    /\ cancelLog = <<>>
    /\ triggerCount = 0
    /\ hogWorkAtTrigger = 0
    /\ leakyPc = "unspawned"
    /\ leakyTimer = 0
    /\ leakyWork = 0
    /\ hogPc = "unspawned"
    /\ tickerLive = FALSE
    /\ tickerTimer = 0
    /\ tickPending = FALSE
    /\ hogWork = 0
    /\ hogDoneEvents = 0
    /\ hogWorkAtDone = 0
    /\ hogErrSeen = Unread
    /\ hogCauseSeen = Unread

\* ---- main ----

\* ctx, cancel := context.WithCancelCause(context.Background()); defer cancel(nil)
MainCreateDefersTwice ==
    /\ mainPc = "start"
    /\ ctx' = WithCancelCause
    /\ deferred' = <<Nil, Nil>> \o deferred
    /\ mainPc' = "goLeaky"
    /\ UNCHANGED <<variant, mainTimer, bgCtx, cancelLog, triggerCount,
                   hogWorkAtTrigger,
                   leakyVars, tickerVars, hogVars>>

MainCreate ==
    /\ mainPc = "start"
    /\ ctx' = WithCancelCause
    /\ deferred' = <<Nil>> \o deferred
    /\ mainPc' = "goLeaky"
    /\ UNCHANGED <<variant, mainTimer, bgCtx, cancelLog, triggerCount,
                   hogWorkAtTrigger,
                   leakyVars, tickerVars, hogVars>>

\* go leakyCauldron(context.Background())
MainGoLeaky ==
    /\ mainPc = "goLeaky"
    /\ leakyPc' = "entry"
    /\ mainPc' = "goHogwarts"
    /\ UNCHANGED <<variant, mainTimer, deferred, bgCtx, ctxVars, leakyTimer,
                   leakyWork, tickerVars, hogVars>>

\* go hogwarts(ctx)
MainGoHogwarts ==
    /\ mainPc = "goHogwarts"
    /\ hogPc' = "entry"
    /\ mainPc' = "sleepWarmUp"
    /\ UNCHANGED <<variant, mainTimer, deferred, bgCtx, ctxVars, leakyVars,
                   tickerVars, hogWork, hogDoneEvents, hogWorkAtDone,
                   hogErrSeen, hogCauseSeen>>

\* time.Sleep(1500 * time.Millisecond) begins
MainSleepWarmUp ==
    /\ mainPc = "sleepWarmUp"
    /\ mainTimer' = WarmUp
    /\ mainPc' = "warmUp"
    /\ UNCHANGED <<variant, deferred, bgCtx, ctxVars, leakyVars, tickerVars,
                   hogVars>>

\* the sleep is over; cancel(causeError)
MainCancelSharedCtx ==
    /\ mainPc = "warmUp"
    /\ mainTimer = 0
    /\ ctx' = cancel(ctx, CauseArg)
    /\ bgCtx' = cancel(bgCtx, CauseArg)
    /\ cancelLog' = Append(cancelLog, CauseArg)
    /\ triggerCount' = IF ctx' # ctx THEN triggerCount + 1 ELSE triggerCount
    /\ hogWorkAtTrigger' = IF ctx' # ctx THEN hogWork ELSE hogWorkAtTrigger
    /\ mainPc' = "sleepObserve"
    /\ UNCHANGED <<variant, mainTimer, deferred, leakyVars, tickerVars,
                   hogVars>>

MainCancel ==
    /\ mainPc = "warmUp"
    /\ mainTimer = 0
    /\ ctx' = cancel(ctx, CauseArg)
    /\ cancelLog' = Append(cancelLog, CauseArg)
    /\ triggerCount' = IF ctx' # ctx THEN triggerCount + 1 ELSE triggerCount
    /\ hogWorkAtTrigger' = IF ctx' # ctx THEN hogWork ELSE hogWorkAtTrigger
    /\ mainPc' = "sleepObserve"
    /\ UNCHANGED <<variant, mainTimer, deferred, bgCtx, leakyVars, tickerVars,
                   hogVars>>

\* time.Sleep(2000 * time.Millisecond) begins
MainSleepObserve ==
    /\ mainPc = "sleepObserve"
    /\ mainTimer' = Observation
    /\ mainPc' = "observe"
    /\ UNCHANGED <<variant, deferred, bgCtx, ctxVars, leakyVars, tickerVars,
                   hogVars>>

\* the sleep is over; the final report is printed
MainReport ==
    /\ mainPc = "observe"
    /\ mainTimer = 0
    /\ mainPc' = "return"
    /\ UNCHANGED <<variant, mainTimer, deferred, bgCtx, ctxVars, leakyVars,
                   tickerVars, hogVars>>

\* main returns: the deferred cancel(nil) runs
MainDeferredCancel ==
    /\ mainPc = "return"
    /\ deferred # <<>>
    /\ ctx' = cancel(ctx, Head(deferred))
    /\ cancelLog' = Append(cancelLog, Head(deferred))
    /\ triggerCount' = IF ctx' # ctx THEN triggerCount + 1 ELSE triggerCount
    /\ hogWorkAtTrigger' = IF ctx' # ctx THEN hogWork ELSE hogWorkAtTrigger
    /\ deferred' = Tail(deferred)
    /\ UNCHANGED <<variant, mainPc, mainTimer, bgCtx, leakyVars, tickerVars,
                   hogVars>>

\* main has returned: the process exits
MainExit ==
    /\ mainPc = "return"
    /\ deferred = <<>>
    /\ mainPc' = "exited"
    /\ UNCHANGED <<variant, mainTimer, deferred, bgCtx, ctxVars, leakyVars,
                   tickerVars, hogVars>>

\* ---- leakyCauldron / leakyWorker ----

\* the entry message is printed and the first time.Sleep begins
LeakyEnter ==
    /\ Alive
    /\ leakyPc = "entry"
    /\ leakyPc' = "sleeping"
    /\ leakyTimer' = LeakySleep
    /\ UNCHANGED <<variant, mainVars, bgCtx, ctxVars, leakyWork, tickerVars,
                   hogVars>>

\* the sleep is over: a work event is printed and the next sleep begins
LeakyWorkChecksDone ==
    /\ Alive
    /\ leakyPc = "sleeping"
    /\ leakyTimer = 0
    /\ leakyWork < MaxLeakyWork
    /\ ~ctx.done
    /\ leakyWork' = leakyWork + 1
    /\ leakyTimer' = LeakySleep
    /\ UNCHANGED <<variant, mainVars, bgCtx, ctxVars, leakyPc, tickerVars,
                   hogVars>>

LeakyWork ==
    /\ Alive
    /\ leakyPc = "sleeping"
    /\ leakyTimer = 0
    /\ leakyWork < MaxLeakyWork
    /\ leakyWork' = leakyWork + 1
    /\ leakyTimer' = LeakySleep
    /\ UNCHANGED <<variant, mainVars, bgCtx, ctxVars, leakyPc, tickerVars,
                   hogVars>>

\* ---- hogwarts / safeWorker ----

\* the entry message is printed; ticker := time.NewTicker(200ms); defer ticker.Stop()
HogwartsEnter ==
    /\ Alive
    /\ hogPc = "entry"
    /\ hogPc' = "select"
    /\ tickerLive' = TRUE
    /\ tickerTimer' = TickerPeriod
    /\ tickPending' = FALSE
    /\ UNCHANGED <<variant, mainVars, bgCtx, ctxVars, leakyVars, hogWork,
                   hogDoneEvents, hogWorkAtDone, hogErrSeen, hogCauseSeen>>

\* case <-ticker.C: a work event is printed
HogwartsTick ==
    /\ Alive
    /\ hogPc = "select"
    /\ tickPending
    /\ hogWork < MaxHogWork
    /\ tickPending' = FALSE
    /\ hogWork' = hogWork + 1
    /\ UNCHANGED <<variant, mainVars, bgCtx, ctxVars, leakyVars, hogPc,
                   tickerLive, tickerTimer, hogDoneEvents, hogWorkAtDone,
                   hogErrSeen, hogCauseSeen>>

\* case <-ctx.Done(): the cancellation-received message is printed
HogwartsDoneConsumes ==
    /\ Alive
    /\ hogPc = "select"
    /\ DoneReady(ctx)
    /\ ctx' = [ctx EXCEPT !.done = FALSE]
    /\ hogDoneEvents' = hogDoneEvents + 1
    /\ hogWorkAtDone' = hogWork
    /\ hogPc' = "readErr"
    /\ UNCHANGED <<variant, mainVars, bgCtx, cancelLog, triggerCount,
                   hogWorkAtTrigger, leakyVars, tickerVars, hogWork,
                   hogErrSeen, hogCauseSeen>>

HogwartsDone ==
    /\ Alive
    /\ hogPc = "select"
    /\ DoneReady(ctx)
    /\ hogDoneEvents' = hogDoneEvents + 1
    /\ hogWorkAtDone' = hogWork
    /\ hogPc' = "readErr"
    /\ UNCHANGED <<variant, mainVars, bgCtx, ctxVars, leakyVars, tickerVars,
                   hogWork, hogErrSeen, hogCauseSeen>>

\* ctx.Err() is read and printed
HogwartsReadErr ==
    /\ Alive
    /\ hogPc = "readErr"
    /\ hogErrSeen' = Err(ctx)
    /\ hogPc' = IF variant = "cause" THEN "readCause" ELSE "return"
    /\ UNCHANGED <<variant, mainVars, bgCtx, ctxVars, leakyVars, tickerVars,
                   hogWork, hogDoneEvents, hogWorkAtDone, hogCauseSeen>>

\* cause := context.Cause(ctx) is read and printed (first program only)
HogwartsReadCausePrintsErr ==
    /\ Alive
    /\ hogPc = "readCause"
    /\ hogCauseSeen' = Err(ctx)
    /\ hogPc' = "return"
    /\ UNCHANGED <<variant, mainVars, bgCtx, ctxVars, leakyVars, tickerVars,
                   hogWork, hogDoneEvents, hogWorkAtDone, hogErrSeen>>

HogwartsReadCause ==
    /\ Alive
    /\ hogPc = "readCause"
    /\ hogCauseSeen' = Cause(ctx)
    /\ hogPc' = "return"
    /\ UNCHANGED <<variant, mainVars, bgCtx, ctxVars, leakyVars, tickerVars,
                   hogWork, hogDoneEvents, hogWorkAtDone, hogErrSeen>>

\* return: the deferred ticker.Stop() runs and the goroutine ends
HogwartsReturnLoops ==
    /\ Alive
    /\ hogPc = "return"
    /\ hogPc' = "select"
    /\ UNCHANGED <<variant, mainVars, bgCtx, ctxVars, leakyVars, tickerVars,
                   hogWork, hogDoneEvents, hogWorkAtDone, hogErrSeen,
                   hogCauseSeen>>

HogwartsReturnNoStop ==
    /\ Alive
    /\ hogPc = "return"
    /\ hogPc' = "stopped"
    /\ UNCHANGED <<variant, mainVars, bgCtx, ctxVars, leakyVars, tickerVars,
                   hogWork, hogDoneEvents, hogWorkAtDone, hogErrSeen,
                   hogCauseSeen>>

HogwartsReturn ==
    /\ Alive
    /\ hogPc = "return"
    /\ tickerLive' = FALSE
    /\ hogPc' = "stopped"
    /\ UNCHANGED <<variant, mainVars, bgCtx, ctxVars, leakyVars, tickerTimer,
                   tickPending, hogWork, hogDoneEvents, hogWorkAtDone,
                   hogErrSeen, hogCauseSeen>>

\* ---- the runtime's timers ----

\* the ticker's period is over: a tick is sent to ticker.C, or dropped when
\* the channel is full, and the next period begins
TickerFire ==
    /\ Alive
    /\ tickerLive
    /\ tickerTimer = 0
    /\ tickPending' = TRUE
    /\ tickerTimer' = TickerPeriod
    /\ UNCHANGED <<variant, mainVars, bgCtx, ctxVars, leakyVars, tickerLive,
                   hogVars>>

\* time passes, up to the next expiry of a running timer
AdvanceTime ==
    /\ Alive
    /\ \E t \in ActiveTimers : t > 0
    /\ LET d == Min({t \in ActiveTimers : t > 0})
       IN /\ mainTimer' = IF mainPc \in {"warmUp", "observe"}
                          THEN Elapse(mainTimer, d) ELSE mainTimer
          /\ leakyTimer' = IF leakyPc = "sleeping"
                           THEN Elapse(leakyTimer, d) ELSE leakyTimer
          /\ tickerTimer' = IF tickerLive
                            THEN Elapse(tickerTimer, d) ELSE tickerTimer
    /\ UNCHANGED <<variant, mainPc, deferred, bgCtx, ctxVars, leakyPc,
                   leakyWork, tickerLive, tickPending, hogVars>>

Next ==
    \/ MainCreate
    \/ MainGoLeaky
    \/ MainGoHogwarts
    \/ MainSleepWarmUp
    \/ MainCancel
    \/ MainSleepObserve
    \/ MainReport
    \/ MainDeferredCancel
    \/ MainExit
    \/ LeakyEnter
    \/ LeakyWork
    \/ HogwartsEnter
    \/ HogwartsTick
    \/ HogwartsDone
    \/ HogwartsReadErr
    \/ HogwartsReadCause
    \/ HogwartsReturn
    \/ TickerFire
    \/ AdvanceTime

Spec == Init /\ [][Next]_vars

\* Every runnable goroutine is eventually scheduled, timers eventually fire,
\* and a select whose Done case is ready again and again eventually takes it
\* (Go's select chooses among ready cases uniformly at random).
Fairness ==
    /\ WF_vars(MainCreate) /\ WF_vars(MainGoLeaky) /\ WF_vars(MainGoHogwarts)
    /\ WF_vars(MainSleepWarmUp) /\ WF_vars(MainCancel)
    /\ WF_vars(MainSleepObserve) /\ WF_vars(MainReport)
    /\ WF_vars(MainDeferredCancel) /\ WF_vars(MainExit)
    /\ WF_vars(LeakyEnter) /\ WF_vars(LeakyWork)
    /\ WF_vars(HogwartsEnter) /\ WF_vars(HogwartsTick)
    /\ SF_vars(HogwartsDone)
    /\ WF_vars(HogwartsReadErr) /\ WF_vars(HogwartsReadCause)
    /\ WF_vars(HogwartsReturn)
    /\ WF_vars(TickerFire) /\ WF_vars(AdvanceTime)

FairSpec == Spec /\ Fairness

TypeOK ==
    /\ variant \in {"cause", "plain"}
    /\ mainPc \in {"start", "goLeaky", "goHogwarts", "sleepWarmUp", "warmUp",
                   "sleepObserve", "observe", "return", "exited"}
    /\ leakyPc \in {"unspawned", "entry", "sleeping"}
    /\ hogPc \in {"unspawned", "entry", "select", "readErr", "readCause",
                  "return", "stopped"}
    /\ ctx.done \in BOOLEAN
    /\ leakyWork \in 0..MaxLeakyWork
    /\ hogWork \in 0..MaxHogWork

\* ---- properties ----

\* The cooperative worker has taken its ctx.Done() branch.
HogObserved == hogPc \in {"readErr", "readCause", "return", "stopped"}

\* The cause recorded by a first cancel call whose argument is c.
Recorded(c) == IF c = Nil THEN Canceled ELSE c

\* C1: once the cooperative worker has taken the ctx.Done() branch it never
\* goes back to its loop and its work-event count never increases again;
\* STOPPED is terminal.
C1_NoWorkAfterCancel ==
    [][/\ HogObserved => HogObserved' /\ hogWork' = hogWork
       /\ hogPc = "stopped" => hogPc' = "stopped"]_vars

\* C1 witness: the worker is stopped while a tick it could have worked on
\* is waiting in ticker.C.
C1_Witness ==
    hogPc = "stopped" /\ tickPending /\ hogWork > 0 /\ hogWork < MaxHogWork

\* C2: whenever the context has been cancelled, the cooperative worker
\* eventually reaches STOPPED.
C2_EventuallyStopped == ctx.done ~> (hogPc = "stopped")

\* C3: every cancel call after the first leaves the context unchanged, and
\* the recorded cause stays the cause of the first call.
C3_TriggerIdempotent ==
    [][Len(cancelLog) >= 1 /\ Len(cancelLog') > Len(cancelLog)
         => ctx' = ctx /\ Cause(ctx') = Recorded(Head(cancelLog))]_vars

\* C3 witness: the deferred cancel(nil) has run after cancel(causeError).
C3_Witness ==
    /\ cancelLog = <<causeError, Nil>>
    /\ Cause(ctx) = causeError

\* C4: in every state after the first cancel call, <-ctx.Done() is ready
\* (the worker's Done branch is enabled whenever it is at its select) and
\* every read of the cause, the worker's included, gives the cause of that call.
C4_AfterTrigger ==
    cancelLog # <<>> =>
        /\ DoneReady(ctx)
        /\ Cause(ctx) = Recorded(Head(cancelLog))
        /\ (Alive /\ hogPc = "select" => ENABLED HogwartsDone)
        /\ hogCauseSeen \in {Unread, Recorded(Head(cancelLog))}

\* C4 witness: the worker has read the cause and both cancel calls are over.
C4_Witness ==
    /\ variant = "cause"
    /\ Len(cancelLog) = 2
    /\ hogCauseSeen = causeError

\* C5: as long as cancel has not been called the context is not done, and
\* the cooperative worker has neither taken its Done branch nor stopped.
C5_NotTriggeredBeforeCancel ==
    cancelLog = <<>> =>
        /\ ~DoneReady(ctx)
        /\ ~HogObserved
        /\ hogDoneEvents = 0

\* C5 witness: the worker is at its select, has worked, and main's warm-up
\* is over but cancel has not been called yet.
C5_Witness ==
    /\ cancelLog = <<>>
    /\ mainPc = "warmUp" /\ mainTimer = 0
    /\ hogPc = "select" /\ hogWork > 0

C7_OneCancellationEvent ==
    /\ hogDoneEvents <= 1
    /\ variant = "cause" /\ hogPc = "stopped" =>
          /\ hogDoneEvents = 1
          /\ cancelLog # <<>> /\ Head(cancelLog) = causeError
          /\ hogCauseSeen = causeError
          /\ hogWork = hogWorkAtDone

\* C7 witness: the worker of the first program has stopped after some work.
C7_Witness ==
    variant = "cause" /\ hogPc = "stopped" /\ hogWork > 0

\* C8: a context cancelled without a cause reads as Canceled, from Err()
\* and from Cause(); no read of a done context gives nil.
C8_DefaultCause ==
    /\ DoneReady(ctx) => Err(ctx) = Canceled /\ Cause(ctx) # Nil
    /\ DoneReady(ctx) /\ Head(cancelLog) = Nil => Cause(ctx) = Canceled
    /\ hogErrSeen \in {Unread, Canceled}
    /\ hogCauseSeen # Nil

\* C8 witness: in the second program the worker has printed ctx.Err().
C8_Witness ==
    variant = "plain" /\ hogErrSeen = Canceled /\ Head(cancelLog) = Nil

\* C9 (as stated): cancel is called at most once in a run.
C9_TriggerInvokedOnce == Len(cancelLog) <= 1

\* C9 (amended): cancel is called at most twice in a run, the explicit call
\* and the deferred one, and only the first call changes the context.
C9_TriggerEffectiveOnce ==
    /\ Len(cancelLog) <= 2
    /\ triggerCount = (IF cancelLog = <<>> THEN 0 ELSE 1)

\* C9 witness: both calls of cancel have been made.
C9_Witness == Len(cancelLog) = 2 /\ triggerCount = 1

\* C10: when cancel has been called, both workers have executed their
\* first step.
C10_TriggerAfterWorkersStarted ==
    cancelLog # <<>> =>
        /\ leakyPc = "sleeping"
        /\ hogPc \notin {"unspawned", "entry"}

\* C11: the context changes at most once.  Once done it keeps the same
\* state and cause in every later step; a step that changes it is a cancel
\* call of main and leaves the workers where they are; and what the worker
\* has read of a done context is what the context holds.
C11_SignalSetOnce ==
    /\ [](triggerCount <= 1)
    /\ [](DoneReady(ctx) =>
            /\ hogErrSeen \in {Unread, Err(ctx)}
            /\ hogCauseSeen \in {Unread, Cause(ctx)})
    /\ [][/\ DoneReady(ctx) => ctx' = ctx
          /\ ctx' # ctx =>
                /\ mainPc \in {"warmUp", "return"}
                /\ Len(cancelLog') = Len(cancelLog) + 1
                /\ UNCHANGED <<hogVars, leakyVars>>]_vars

\* C11 witness: the worker has read Err and Cause of the context and the
\* second cancel call has been made since the context was set.
C11_Witness ==
    /\ triggerCount = 1 /\ Len(cancelLog) = 2
    /\ hogErrSeen = Err(ctx) /\ hogCauseSeen = Cause(ctx)

\* C12: the context handed to the leaky worker is never done, and a step
\* that calls cancel leaves it and the leaky worker's state unchanged.
C12_LeakyUnaffected ==
    /\ [](~DoneReady(bgCtx) /\ Err(bgCtx) = Nil /\ Cause(bgCtx) = Nil)
    /\ [][Len(cancelLog') # Len(cancelLog) \/ ctx' # ctx
            => UNCHANGED <<bgCtx, leakyVars>>]_vars

\* C12 witness: ctx is done, the leaky worker's context is not, and the
\* leaky worker has worked and is in its loop.
C12_Witness ==
    /\ DoneReady(ctx) /\ ~DoneReady(bgCtx)
    /\ leakyPc = "sleeping" /\ leakyWork > 0

\* C13: after the cancel call that set the context, the cooperative worker
\* logs at most one more work event.
C13_AtMostOneWorkAfterTrigger ==
    DoneReady(ctx) => hogWork <= hogWorkAtTrigger + 1

\* C14: the context is seen done exactly when Err and Cause are set: in no
\* state is Done readable with a nil Err or a nil Cause, and a worker that
\* has taken its Done branch finds both set and never prints nil.
C14_AtomicTrigger ==
    /\ DoneReady(ctx) <=> Err(ctx) # Nil
    /\ DoneReady(ctx) <=> Cause(ctx) # Nil
    /\ HogObserved => Err(ctx) # Nil /\ Cause(ctx) # Nil
    /\ hogErrSeen # Nil /\ hogCauseSeen # Nil

\* C14 witness: the worker has just taken its Done branch and is about to
\* read Err, with only the first cancel call made.
C14_Witness ==
    hogPc = "readErr" /\ Len(cancelLog) = 1 /\ DoneReady(ctx)

\* C15: when main has printed its final report, and when it has exited,
\* the cooperative worker is stopped, having printed the cancellation
\* error, and the leaky worker is in its loop.
C15_ReportIsTrue ==
    mainPc \in {"return", "exited"} =>
        /\ hogPc = "stopped"
        /\ hogErrSeen = Canceled
        /\ leakyPc = "sleeping"

\* C16: when the cooperative worker is stopped its ticker is stopped, and
\* from then on no tick is produced and the ticker's state never changes;
\* from NewTicker until the return the ticker is live.
C16_TickerReleased ==
    /\ [](hogPc = "stopped" => ~tickerLive)
    /\ [](hogPc \in {"select", "readErr", "readCause", "return"} => tickerLive)
    /\ [](hogPc = "stopped" => ~ENABLED TickerFire)
    /\ [][hogPc = "stopped" => UNCHANGED tickerVars]_vars

\* C16 witness: the worker is stopped, the process runs, and the ticker's
\* period was over with no tick delivered when the worker returned.
C16_Witness ==
    /\ hogPc = "stopped" /\ Alive
    /\ tickerTimer = 0 /\ ~tickPending

====
